---- MODULE Spec2Model ----
(***************************************************************************)
(* Model of admin_insights_etl.py: Tableau data sources are downloaded as  *)
(* .tdsx archives, the .hyper extract inside is unpacked, dumped to a      *)
(* .parquet file and loaded into a Snowflake table; the items are mapped   *)
(* over a multiprocessing Pool of five workers.                            *)
(*                                                                         *)
(* Strings are sequences of one-character strings (an extension such as    *)
(* ".tdsx" is one token); a path is a record [dir, name].                  *)
(***************************************************************************)
EXTENDS Integers, Sequences, FiniteSets, TLC

VARIABLES tdsx_files, config, disk, warehouse, task, pool, mainpc, output

vars == <<tdsx_files, config, disk, warehouse, task, pool, mainpc, output>>

(***************************************************************************)
(* Bounds of the model and program constants                               *)
(***************************************************************************)
PoolWidth == 5          \* Pool(5)
MaxItems == 21          \* largest number of data sources listed
MaxFaulty == 2          \* items 1..MaxFaulty may meet a failing collaborator
MaxEntries == 2         \* most entries in one archive
MaxData == 2            \* distinct entry contents

(***************************************************************************)
(* Strings                                                                 *)
(***************************************************************************)
NoneVal == <<"<None>">>                  \* Python's None where a str is expected

LowerAlphabet == <<"a", "b", "c", "d", "e", "f", "g", "h", "i", "j", "k", "l", "m",
                    "n", "o", "p", "q", "r", "s", "t", "u", "v", "w", "x", "y", "z">>
UpperAlphabet == <<"A", "B", "C", "D", "E", "F", "G", "H", "I", "J", "K", "L", "M",
                    "N", "O", "P", "Q", "R", "S", "T", "U", "V", "W", "X", "Y", "Z">>

LowerOf == [c \in { UpperAlphabet[k] : k \in 1..Len(UpperAlphabet) } |->
               LowerAlphabet[CHOOSE k \in 1..Len(UpperAlphabet) : UpperAlphabet[k] = c]]
UpperOf == [c \in { LowerAlphabet[k] : k \in 1..Len(LowerAlphabet) } |->
               UpperAlphabet[CHOOSE k \in 1..Len(LowerAlphabet) : LowerAlphabet[k] = c]]

\* characters without case (digits, space, underscore, ...) are left alone
LowerChar(c) == IF c \in DOMAIN LowerOf THEN LowerOf[c] ELSE c
UpperChar(c) == IF c \in DOMAIN UpperOf THEN UpperOf[c] ELSE c

Lower(s) == [k \in 1..Len(s) |-> LowerChar(s[k])]
Upper(s) == [k \in 1..Len(s) |-> UpperChar(s[k])]
Replace(s, old, new) == [k \in 1..Len(s) |-> IF s[k] = old THEN new ELSE s[k]]
EndsWith(s, suffix) == Len(s) > 0 /\ s[Len(s)] = suffix

CwdPath(name) == [dir |-> "cwd", name |-> name]

(***************************************************************************)
(* The local filesystem: a function from the existing paths to contents    *)
(***************************************************************************)
ZipFile(entries) == [kind |-> "zip", entries |-> entries, data |-> 0]
BadFile == [kind |-> "bad", entries |-> <<>>, data |-> 0]
HyperFile(d) == [kind |-> "hyper", entries |-> <<>>, data |-> d]
ParquetFile(d) == [kind |-> "parquet", entries |-> <<>>, data |-> d]

Exists(d, p) == p \in DOMAIN d
EmptyDisk == <<>>
WriteFile(d, p, c) == (p :> c) @@ d           \* the new content wins
Remove(d, p) == [q \in DOMAIN d \ {p} |-> d[q]] @@ EmptyDisk

(***************************************************************************)
(* Exceptions                                                              *)
(***************************************************************************)
NoExc == [kind |-> "none", msg |-> "none"]
Exc(k, m) == [kind |-> k, msg |-> m]
NoPath == CwdPath(NoneVal)

\* the element of a one-element set; { e(r) : r \in {x} } evaluates x once,
\* as a statement evaluates its operands once
The(S) == CHOOSE r \in S : TRUE

(***************************************************************************)
(* extract_hyper_files                                                     *)
(***************************************************************************)
\* line 101: the archive's base name with ".tdsx" replaced by ".hyper", in cwd
target_path(tdsx_file_path) ==
    CwdPath(Replace(tdsx_file_path.name, ".tdsx", ".hyper"))

\* lines 105-112: every entry ending in ".hyper" is written to target_path,
\* in namelist() order, each write truncating the file ('wb')
RECURSIVE ExtractEntries(_, _, _, _)
ExtractEntries(entries, k, target, acc) ==
    IF k > Len(entries) THEN acc
    ELSE IF EndsWith(entries[k].name, ".hyper")
         THEN ExtractEntries(entries, k + 1, target,
                [disk |-> WriteFile(acc.disk, target, HyperFile(entries[k].data)),
                 hyper_files |-> Append(acc.hyper_files, target)])
         ELSE ExtractEntries(entries, k + 1, target, acc)

\* line 118: os.remove(tdsx_file_path)
ExtractCleanupSkipped(d, tdsx_file_path) == d
ExtractCleanup(d, tdsx_file_path) == Remove(d, tdsx_file_path)

\* a variant that removes the archive before looking at hyper_files
extract_hyper_files_cleanup_first(d, tdsx_file_path) ==
    IF ~Exists(d, tdsx_file_path)
    THEN [disk |-> d, exc |-> Exc("Exception", "FileNotFoundError"), ret |-> NoPath]
    ELSE IF d[tdsx_file_path].kind # "zip"
    THEN [disk |-> d, exc |-> Exc("BadZipFile", "not a valid .tdsx file"), ret |-> NoPath]
    ELSE LET r == ExtractEntries(d[tdsx_file_path].entries, 1,
                                 target_path(tdsx_file_path),
                                 [disk |-> d, hyper_files |-> <<>>])
         IN  IF r.hyper_files = <<>>
             THEN [disk |-> Remove(r.disk, tdsx_file_path),
                   exc |-> Exc("Exception", "No .hyper file found"), ret |-> NoPath]
             ELSE [disk |-> Remove(r.disk, tdsx_file_path), exc |-> NoExc,
                   ret |-> r.hyper_files[1]]

\* lines 98-124.  ZipFile() raises FileNotFoundError for a missing archive and
\* BadZipFile for a file that is no zip; the first is re-raised as a plain
\* Exception (line 124), the second as BadZipFile (line 122).
extract_hyper_files(d, tdsx_file_path) ==
    IF ~Exists(d, tdsx_file_path)
    THEN [disk |-> d, exc |-> Exc("Exception", "FileNotFoundError"), ret |-> NoPath]
    ELSE IF d[tdsx_file_path].kind # "zip"
    THEN [disk |-> d, exc |-> Exc("BadZipFile", "not a valid .tdsx file"), ret |-> NoPath]
    ELSE LET r == ExtractEntries(d[tdsx_file_path].entries, 1,
                                 target_path(tdsx_file_path),
                                 [disk |-> d, hyper_files |-> <<>>])
         IN  IF r.hyper_files = <<>>
             THEN [disk |-> r.disk,
                   exc |-> Exc("Exception", "No .hyper file found"), ret |-> NoPath]
             ELSE [disk |-> ExtractCleanup(r.disk, tdsx_file_path), exc |-> NoExc,
                   ret |-> r.hyper_files[1]]

(***************************************************************************)
(* export_hyper_to_parquet                                                 *)
(***************************************************************************)
HyperFaults == {"none", "start", "dump"}

\* line 156 sits after the with-blocks, inside the try: it runs only when
\* nothing was raised before it
ConvertCleanupAlways(d, hyper_file, exc) == Remove(d, hyper_file)
ConvertCleanup(d, hyper_file, exc) ==
    IF exc = NoExc THEN Remove(d, hyper_file) ELSE d

\* a variant that removes the extract file before the engine is started
export_hyper_to_parquet_remove_first(d, hyper_file, parquet_file, fault) ==
    LET exc == IF fault = "start"
               THEN Exc("HyperException", "engine failed to start")
               ELSE IF ~Exists(d, hyper_file) \/ d[hyper_file].kind # "hyper"
               THEN Exc("HyperException", "cannot open database")
               ELSE IF fault = "dump"
               THEN Exc("HyperException", "copy failed")
               ELSE NoExc
        d1 == IF exc = NoExc
              THEN WriteFile(d, parquet_file, ParquetFile(d[hyper_file].data))
              ELSE d
    IN  [disk |-> Remove(d1, hyper_file), exc |-> exc]

\* lines 142-160.  fault is what the Hyper engine does: "start" - HyperProcess
\* fails to start, "dump" - the copy command fails.  CreateMode.NONE makes the
\* connection fail when the database file is missing.
export_hyper_to_parquet(d, hyper_file, parquet_file, fault) ==
    LET exc == IF fault = "start"
               THEN Exc("HyperException", "engine failed to start")
               ELSE IF ~Exists(d, hyper_file) \/ d[hyper_file].kind # "hyper"
               THEN Exc("HyperException", "cannot open database")
               ELSE IF fault = "dump"
               THEN Exc("HyperException", "copy failed")
               ELSE NoExc
        d1 == IF exc = NoExc
              THEN WriteFile(d, parquet_file, ParquetFile(d[hyper_file].data))
              ELSE d
    IN  [disk |-> ConvertCleanup(d1, hyper_file, exc), exc |-> exc]

(***************************************************************************)
(* pq_to_snowflake                                                         *)
(*                                                                         *)
(* The warehouse is [schemas, tables]; tables maps <<schema, table>> to    *)
(* [columns, rows].  The temporary file format and stage live in the       *)
(* session (ses.staged) and vanish when the connection closes.             *)
(***************************************************************************)
\* lines 197-232: the cur.execute calls, in program order
LoadCommandsDropFirst ==
    <<"create_schema", "file_format", "stage", "drop_table", "put",
      "create_table", "copy_into">>
LoadCommands ==
    <<"create_schema", "file_format", "stage", "put", "drop_table",
      "create_table", "copy_into">>

LoadFaults == {"none", "connect"} \cup
              {"create_schema", "file_format", "stage", "put", "drop_table",
               "create_table", "copy_into"}

DropKey(tables, key) == [q \in DOMAIN tables \ {key} |-> tables[q]] @@ <<>>
PutKey(tables, key, v) == (key :> v) @@ tables

\* a variant in which DROP does nothing and CREATE keeps a table that exists
ExecuteTableKept(cmd, ses, key, pdata) ==
    CASE cmd = "create_schema" ->
           [ses EXCEPT !.wh.schemas = @ \cup {key[1]}]
      [] cmd = "file_format" -> ses
      [] cmd = "stage" -> [ses EXCEPT !.staged = <<>>]
      [] cmd = "put" -> [ses EXCEPT !.staged = Append(@, pdata)]
      [] cmd = "drop_table" -> ses
      [] cmd = "create_table" ->
           IF key \in DOMAIN ses.wh.tables THEN ses
           ELSE [ses EXCEPT !.wh.tables =
                    PutKey(@, key, [columns |-> ses.staged, rows |-> <<>>])]
      [] cmd = "copy_into" ->
           [ses EXCEPT !.wh.tables =
                           PutKey(@, key, [columns |-> ses.wh.tables[key].columns,
                                           rows |-> ses.wh.tables[key].rows \o ses.staged]),
                       !.staged = <<>>]

\* the effect of one successful command; each is committed on its own
\* (no BEGIN/COMMIT is issued anywhere in lines 187-232)
Execute(cmd, ses, key, pdata) ==
    CASE cmd = "create_schema" ->
           [ses EXCEPT !.wh.schemas = @ \cup {key[1]}]
      [] cmd = "file_format" -> ses
      [] cmd = "stage" -> [ses EXCEPT !.staged = <<>>]
      [] cmd = "put" -> [ses EXCEPT !.staged = Append(@, pdata)]
      [] cmd = "drop_table" ->
           [ses EXCEPT !.wh.tables = DropKey(@, key)]
      [] cmd = "create_table" ->
           [ses EXCEPT !.wh.tables =
               PutKey(@, key, [columns |-> ses.staged, rows |-> <<>>])]
      [] cmd = "copy_into" ->
           [ses EXCEPT !.wh.tables =
                           PutKey(@, key, [columns |-> ses.wh.tables[key].columns,
                                           rows |-> ses.wh.tables[key].rows \o ses.staged]),
                       !.staged = <<>>]

\* the commands run one after the other until one raises
RECURSIVE RunCommands(_, _, _, _, _, _)
RunCommands(cmds, k, fault, ses, key, pdata) ==
    IF k > Len(cmds) THEN ses
    ELSE IF cmds[k] = fault
         THEN [ses EXCEPT !.sql = Append(@, [cmd |-> cmds[k], ok |-> FALSE]),
                          !.exc = Exc("DatabaseError", cmds[k])]
         ELSE RunCommands(cmds, k + 1, fault,
                          [Execute(cmds[k], ses, key, pdata)
                              EXCEPT !.sql = Append(@, [cmd |-> cmds[k], ok |-> TRUE])],
                          key, pdata)

\* line 235 sits after the with-block, inside the try
LoadCleanupAlways(d, parquet_file, exc) == Remove(d, parquet_file)
LoadCleanupSkipped(d, parquet_file, exc) == d
LoadCleanup(d, parquet_file, exc) ==
    IF exc = NoExc THEN Remove(d, parquet_file) ELSE d

\* a variant that connects and creates the schema before it looks for the file
pq_to_snowflake_connect_first(d, wh, target_table, target_schema, parquet_file, fault) ==
    IF fault = "connect"
    THEN [disk |-> d, warehouse |-> wh, sql |-> <<>>, connected |-> FALSE,
          exc |-> Exc("DatabaseError", "connect")]
    ELSE IF ~Exists(d, parquet_file)
    THEN [disk |-> d,
          warehouse |-> [wh EXCEPT !.schemas = @ \cup {target_schema}],
          sql |-> << [cmd |-> "create_schema", ok |-> TRUE] >>,
          connected |-> TRUE,
          exc |-> Exc("RuntimeError", "FileNotFoundError")]
    ELSE The({ [disk |-> LoadCleanup(d, parquet_file, ses.exc),
                 warehouse |-> ses.wh, sql |-> ses.sql,
                 connected |-> TRUE, exc |-> ses.exc] :
               ses \in { RunCommands(LoadCommands, 1, fault,
                            [wh |-> wh, staged |-> <<>>, sql |-> <<>>, exc |-> NoExc],
                            <<target_schema, target_table>>, d[parquet_file].data) } })

\* lines 179-239.  fault names what Snowflake refuses: "connect", or one of
\* the commands.
pq_to_snowflake(d, wh, target_table, target_schema, parquet_file, fault) ==
    IF ~Exists(d, parquet_file)
    THEN [disk |-> d, warehouse |-> wh, sql |-> <<>>, connected |-> FALSE,
          exc |-> Exc("RuntimeError", "FileNotFoundError")]
    ELSE IF fault = "connect"
    THEN [disk |-> d, warehouse |-> wh, sql |-> <<>>, connected |-> FALSE,
          exc |-> Exc("DatabaseError", "connect")]
    ELSE The({ [disk |-> LoadCleanup(d, parquet_file, ses.exc),
                 warehouse |-> ses.wh, sql |-> ses.sql,
                 connected |-> TRUE, exc |-> ses.exc] :
               ses \in { RunCommands(LoadCommands, 1, fault,
                            [wh |-> wh, staged |-> <<>>, sql |-> <<>>, exc |-> NoExc],
                            <<target_schema, target_table>>, d[parquet_file].data) } })

(***************************************************************************)
(* load_data_source, one step per statement group.  m = [disk, warehouse,  *)
(* t] is what the worker can touch; t holds the locals of the call, and    *)
(* for the record: the stage functions called (calls), the SQL commands    *)
(* sent (sql), the archive as extract_hyper_files found it (archive) and   *)
(* the target table as pq_to_snowflake found it (found).                   *)
(***************************************************************************)
NoTable == [columns |-> <<>>, rows |-> <<>>]

NoError == [kind |-> "none", item |-> NoneVal, stage |-> "none", cause |-> NoExc]

NewTask == [pc |-> "start", table_prefix |-> NoneVal,
            target_schema_name |-> NoneVal, ds_name |-> NoneVal,
            hyper_file_name |-> NoPath, new_parquet_file |-> NoPath,
            target_table_name |-> NoneVal, calls |-> <<>>, sql |-> <<>>,
            connected |-> FALSE, archive |-> BadFile, found |-> NoTable,
            error |-> NoError]

\* lines 277-279: whatever a statement of the try block raises ends the call
\* with a RuntimeError naming the data source; nothing after it runs
OnStageIgnoreError(t, tdsx_data, stage, exc, nextpc) == [t EXCEPT !.pc = nextpc]
OnStage(t, tdsx_data, stage, exc, nextpc) ==
    IF exc = NoExc
    THEN [t EXCEPT !.pc = nextpc]
    ELSE [t EXCEPT !.pc = "failed",
                   !.error = [kind |-> "RuntimeError",
                              item |-> tdsx_data.datasource_name,
                              stage |-> stage, cause |-> exc]]

\* lines 257-261
StepBegin(m, tdsx_data, cfg) ==
    IF ~cfg.present
    THEN [m EXCEPT !.t = OnStage(@, tdsx_data, "config",
                                 Exc("FileNotFoundError", "config.yml"), "extract")]
    ELSE [m EXCEPT !.t = OnStage(
              [@ EXCEPT !.table_prefix = cfg.target_table_prefix,
                        !.target_schema_name = cfg.target_schema,
                        !.ds_name = Replace(Lower(tdsx_data.datasource_name), " ", "_")],
              tdsx_data, "config", NoExc, "extract")]

\* line 262
StepExtract(m, tdsx_data) ==
    The({ [disk |-> r.disk, warehouse |-> m.warehouse,
           t |-> OnStage([m.t EXCEPT !.hyper_file_name = r.ret,
                                     !.archive = IF Exists(m.disk, tdsx_data.tdsx_file)
                                                 THEN m.disk[tdsx_data.tdsx_file]
                                                 ELSE BadFile,
                                     !.calls = Append(@, [fn |-> "extract",
                                                          ok |-> r.exc = NoExc])],
                         tdsx_data, "extract", r.exc, "convert")] :
          r \in { extract_hyper_files(m.disk, tdsx_data.tdsx_file) } })

\* lines 263-264
StepConvert(m, tdsx_data, fault) ==
    The({ [disk |-> r.disk, warehouse |-> m.warehouse,
           t |-> OnStage([m.t EXCEPT !.new_parquet_file =
                                         CwdPath(Append(m.t.ds_name, ".parquet")),
                                     !.calls = Append(@, [fn |-> "convert",
                                                          ok |-> r.exc = NoExc])],
                         tdsx_data, "convert", r.exc, "names")] :
          r \in { export_hyper_to_parquet(m.disk, m.t.hyper_file_name,
                      CwdPath(Append(m.t.ds_name, ".parquet")), fault) } })

\* a variant that joins prefix and name and leaves the case as it is
target_table_case_kept(table_prefix, ds_name) ==
    IF table_prefix # NoneVal /\ table_prefix # <<>>
    THEN table_prefix \o <<"_">> \o ds_name
    ELSE ds_name

\* lines 266-272: "if table_prefix" is false for None and for the empty string
target_table(table_prefix, ds_name) ==
    Upper(IF table_prefix # NoneVal /\ table_prefix # <<>>
          THEN table_prefix \o <<"_">> \o ds_name
          ELSE ds_name)

\* lines 266-273; None.upper() raises AttributeError at line 273
StepNames(m, tdsx_data) ==
    LET t == m.t
        name == target_table(t.table_prefix, t.ds_name)
    IN  IF t.target_schema_name = NoneVal
        THEN [m EXCEPT !.t = OnStage([t EXCEPT !.target_table_name = name],
                                     tdsx_data, "names",
                                     Exc("AttributeError", "upper"), "load")]
        ELSE [m EXCEPT !.t = OnStage(
                  [t EXCEPT !.target_table_name = name,
                            !.target_schema_name = Upper(t.target_schema_name)],
                  tdsx_data, "names", NoExc, "load")]

\* line 209: the table is addressed as schema.table
TableKey(t) == <<t.target_schema_name, t.target_table_name>>

\* line 276
StepLoad(m, tdsx_data, fault) ==
    The({ [disk |-> r.disk, warehouse |-> r.warehouse,
           t |-> OnStage([m.t EXCEPT !.sql = r.sql, !.connected = r.connected,
                                     !.found = IF TableKey(m.t) \in DOMAIN m.warehouse.tables
                                               THEN m.warehouse.tables[TableKey(m.t)]
                                               ELSE NoTable,
                                     !.calls = Append(@, [fn |-> "load",
                                                          ok |-> r.exc = NoExc])],
                         tdsx_data, "load", r.exc, "done")] :
          r \in { pq_to_snowflake(m.disk, m.warehouse, m.t.target_table_name,
                                  m.t.target_schema_name, m.t.new_parquet_file,
                                  fault) } })

\* the stage of the item, read off the position of its call
Stage(t) == CASE t.pc \in {"start", "extract"} -> "Listed"
              [] t.pc = "convert" -> "Extracted"
              [] t.pc \in {"names", "load"} -> "Converted"
              [] t.pc = "done" -> "Loaded"
              [] OTHER -> "Failed"

\* lines 256-279 as one call: the steps in program order, each skipped once
\* an earlier one has raised
load_data_source(m, tdsx_data, cfg, hyper_fault, load_fault) ==
    LET S1 == { StepBegin(m, tdsx_data, cfg) }
        S2 == { IF m1.t.pc = "extract" THEN StepExtract(m1, tdsx_data) ELSE m1 :
                  m1 \in S1 }
        S3 == { IF m2.t.pc = "convert" THEN StepConvert(m2, tdsx_data, hyper_fault)
                ELSE m2 : m2 \in S2 }
        S4 == { IF m3.t.pc = "names" THEN StepNames(m3, tdsx_data) ELSE m3 :
                  m3 \in S3 }
    IN  The({ IF m4.t.pc = "load" THEN StepLoad(m4, tdsx_data, load_fault) ELSE m4 :
                m4 \in S4 })

(***************************************************************************)
(* multiprocessing.Pool(5).map(load_data_source, tdsx_files), lines 290-291 *)
(*                                                                         *)
(* map() cuts the list into chunks of ceil(n / (4 * 5)) items, a worker    *)
(* runs one chunk at a time with list(map(func, chunk)), so an exception   *)
(* ends the chunk; MapResult keeps the first exception it is handed and    *)
(* map() raises it once every chunk has reported.                          *)
(***************************************************************************)
IdlePool == [chunksize |-> 0, ntasks |-> 0, next |-> 1, running |-> {},
             number_left |-> 0, success |-> TRUE, value |-> NoError]

Min(a, b) == IF a < b THEN a ELSE b

\* Pool._map_async: chunksize, extra = divmod(len(iterable), len(self._pool) * 4)
ChunkSize(n) ==
    IF n = 0 THEN 0
    ELSE (n \div (PoolWidth * 4)) +
         (IF n % (PoolWidth * 4) # 0 THEN 1 ELSE 0)

NumChunks(n, chunksize) ==
    IF n = 0 THEN 0 ELSE (n + chunksize - 1) \div chunksize

\* the items of chunk c, in list order
ChunkItems(c) ==
    ((c - 1) * pool.chunksize + 1) .. Min(c * pool.chunksize, Len(tdsx_files))

\* MapResult._set: only the first exception is stored
MapResultSet(p, c, err) ==
    [p EXCEPT !.running = @ \ {c},
              !.number_left = @ - 1,
              !.success = @ /\ err = NoError,
              !.value = IF err # NoError /\ p.success THEN err ELSE @]

\* mapstar: list(map(func, chunk)) - items in order, stopping at the first
\* that raises.  w = [disk, warehouse, task, err]
RECURSIVE RunChunk(_, _, _, _, _)
RunChunk(w, i, last, hf, lf) ==
    IF i > last \/ w.err # NoError THEN w
    ELSE The({ RunChunk([disk |-> m.disk, warehouse |-> m.warehouse,
                         task |-> [w.task EXCEPT ![i] = m.t], err |-> m.t.error],
                        i + 1, last, hf, lf) :
               m \in { load_data_source(
                          [disk |-> w.disk, warehouse |-> w.warehouse, t |-> w.task[i]],
                          tdsx_files[i], config, hf[i], lf[i]) } })

(***************************************************************************)
(* Inputs                                                                  *)
(***************************************************************************)
IdTokens == <<"01", "02", "03", "04", "05", "06", "07", "08", "09", "10", "11", "12",
              "13", "14", "15", "16", "17", "18", "19", "20", "21", "22", "23", "24">>

NameSet == { <<"Q", "1", " ", "S", "a", "l", "e", "s">>,
             <<"q", "1", "_", "s", "a", "l", "e", "s">>,
             <<"T", "S">> }

Prefixes == { NoneVal, <<>>, <<"b", "i">> }
Schemas == { NoneVal, <<"a", "n", "a", "l", "y", "t", "i", "c", "s">> }

NoConfigFile == [present |-> FALSE, target_table_prefix |-> NoneVal,
                 target_schema |-> NoneVal]
Configs == {NoConfigFile} \cup
           [present : {TRUE}, target_table_prefix : Prefixes, target_schema : Schemas]
GoodConfig == [present |-> TRUE, target_table_prefix |-> <<"b", "i">>,
               target_schema |-> <<"a", "n", "a", "l", "y", "t", "i", "c", "s">>]

EntryNames == { <<"Data", "/", "e", ".hyper">>, <<"Data", "/", "f", ".hyper">>,
                <<"e", ".tds">> }
Entries == [name : EntryNames, data : 1..MaxData]
Archives == {BadFile} \cup
            { ZipFile(e) : e \in UNION { [1..n -> Entries] : n \in 0..MaxEntries } }
GoodArchive == ZipFile(<< [name |-> <<"Data", "/", "e", ".hyper">>, data |-> 1] >>)

ItemCounts == {0, 1, PoolWidth + 1, MaxItems}

\* the tables another run may have left behind
OldTable == [columns |-> <<0>>, rows |-> <<0>>]
OldKeys == { <<Upper(sc), target_table(pf, Replace(Lower(nm), " ", "_"))>> :
                sc \in Schemas \ {NoneVal}, pf \in Prefixes, nm \in NameSet }
EmptyWarehouse == [schemas |-> {}, tables |-> <<>>]
UsedWarehouse == [schemas |-> { k[1] : k \in OldKeys },
                  tables |-> [k \in OldKeys |-> OldTable]]

ArchivePath(stem) == CwdPath(<<stem, ".tdsx">>)

(***************************************************************************)
(* Actions of the main program                                             *)
(***************************************************************************)
\* lines 55-77, the listing and every download succeed: one archive per data
\* source is on disk (archives 1..MaxFaulty may be corrupt)
Download ==
    /\ mainpc = "download"
    /\ \E n \in ItemCounts : \E bad \in SUBSET (1..Min(n, MaxFaulty)) :
         /\ tdsx_files' = [i \in 1..n |->
                [datasource_id |-> i,
                 datasource_name |-> <<"D", "S", " ", IdTokens[i]>>,
                 tdsx_file |-> ArchivePath(IdTokens[i])]]
         /\ disk' = [q \in { ArchivePath(IdTokens[i]) : i \in 1..n } |->
                        IF \E i \in bad : q = ArchivePath(IdTokens[i])
                        THEN BadFile ELSE GoodArchive]
         /\ task' = [i \in 1..n |-> NewTask]
    /\ mainpc' = "map"
    /\ UNCHANGED <<config, warehouse, pool, output>>

\* a variant that reports the failure and goes on with the archives it has
DownloadFailsPartial ==
    /\ mainpc = "download"
    /\ \E k \in 0..MaxFaulty :
         /\ tdsx_files' = [i \in 1..k |->
                [datasource_id |-> i,
                 datasource_name |-> <<"D", "S", " ", IdTokens[i]>>,
                 tdsx_file |-> ArchivePath(IdTokens[i])]]
         /\ disk' = [q \in { ArchivePath(IdTokens[i]) : i \in 1..k } |-> GoodArchive]
         /\ task' = [i \in 1..k |-> NewTask]
    /\ output' = Append(output, [msg |-> "main", error |->
                    [kind |-> "RuntimeError", item |-> NoneVal, stage |-> "download",
                     cause |-> Exc("Exception", "download")]])
    /\ mainpc' = "map"
    /\ UNCHANGED <<config, warehouse, pool>>

\* lines 72-75: sign-in, the listing or the download of item k+1 raises;
\* the archives already downloaded stay on disk, tdsx_ls is not returned and
\* the RuntimeError reaches line 292
DownloadFails ==
    /\ mainpc = "download"
    /\ \E k \in 0..MaxFaulty :
         disk' = [q \in { ArchivePath(IdTokens[i]) : i \in 1..k } |-> GoodArchive]
    /\ output' = Append(output, [msg |-> "main", error |->
                    [kind |-> "RuntimeError", item |-> NoneVal, stage |-> "download",
                     cause |-> Exc("Exception", "download")]])
    /\ mainpc' = "done"
    /\ UNCHANGED <<tdsx_files, config, warehouse, task, pool>>

\* line 291, p.map: the chunks are queued
MapAsync ==
    /\ mainpc = "map"
    /\ LET n == Len(tdsx_files)
           cs == ChunkSize(n)
       IN  pool' = [chunksize |-> cs, ntasks |-> NumChunks(n, cs), next |-> 1,
                    running |-> {}, number_left |-> NumChunks(n, cs),
                    success |-> TRUE, value |-> NoError]
    /\ mainpc' = "wait"
    /\ UNCHANGED <<tdsx_files, config, disk, warehouse, task, output>>

\* a variant in which a chunk is taken whether or not a worker is idle
TakeTaskNoIdleCheck ==
    /\ mainpc = "wait"
    /\ pool.next <= pool.ntasks
    /\ pool' = [pool EXCEPT !.running = @ \cup {pool.next}, !.next = @ + 1]
    /\ UNCHANGED <<tdsx_files, config, disk, warehouse, task, mainpc, output>>

\* an idle worker takes the next chunk off the task queue
TakeTask ==
    /\ mainpc = "wait"
    /\ pool.next <= pool.ntasks
    /\ Cardinality(pool.running) < PoolWidth
    /\ pool' = [pool EXCEPT !.running = @ \cup {pool.next}, !.next = @ + 1]
    /\ UNCHANGED <<tdsx_files, config, disk, warehouse, task, mainpc, output>>

\* what may go wrong for an item of 1..MaxFaulty while the pool runs: its
\* dump to parquet fails, or its upload to the stage fails
PoolFaults == {"none", "dump", "put"}

\* a worker runs its chunk to the end and reports to the MapResult
RunTask(c) ==
    /\ mainpc = "wait"
    /\ c \in pool.running
    /\ \A i \in ChunkItems(c) : task[i].pc = "start"
    /\ LET items == ChunkItems(c)
           faulty == items \cap (1..MaxFaulty)
       IN  \E f \in [faulty -> PoolFaults] :
             \E w \in { RunChunk([disk |-> disk, warehouse |-> warehouse,
                                  task |-> task, err |-> NoError],
                                 (c - 1) * pool.chunksize + 1,
                                 Min(c * pool.chunksize, Len(tdsx_files)),
                                 [i \in items |-> IF i \in faulty /\ f[i] = "dump"
                                                  THEN "dump" ELSE "none"],
                                 [i \in items |-> IF i \in faulty /\ f[i] = "put"
                                                  THEN "put" ELSE "none"]) } :
                 /\ disk' = w.disk
                 /\ warehouse' = w.warehouse
                 /\ task' = w.task
                 /\ pool' = MapResultSet(pool, c, w.err)
    /\ UNCHANGED <<tdsx_files, config, mainpc, output>>

\* map() returns, or raises the stored exception into line 292-293
MapReturn ==
    /\ mainpc = "wait"
    /\ pool.number_left = 0
    /\ output' = IF pool.success THEN output
                 ELSE Append(output, [msg |-> "main", error |-> pool.value])
    /\ mainpc' = "done"
    /\ UNCHANGED <<tdsx_files, config, disk, warehouse, task, pool>>

(***************************************************************************)
(* Actions of one worker, statement by statement (chunks of one item)      *)
(***************************************************************************)
Working(i) ==
    /\ mainpc = "wait"
    /\ pool.chunksize = 1
    /\ i \in pool.running

Machine(i) == [disk |-> disk, warehouse |-> warehouse, t |-> task[i]]

Apply(i, m) ==
    /\ disk' = m.disk
    /\ warehouse' = m.warehouse
    /\ task' = [task EXCEPT ![i] = m.t]
    /\ UNCHANGED <<tdsx_files, config, pool, mainpc, output>>

Begin(i) ==
    /\ Working(i) /\ task[i].pc = "start"
    /\ Apply(i, StepBegin(Machine(i), tdsx_files[i], config))

Extract(i) ==
    /\ Working(i) /\ task[i].pc = "extract"
    /\ Apply(i, StepExtract(Machine(i), tdsx_files[i]))

Convert(i) ==
    /\ Working(i) /\ task[i].pc = "convert"
    /\ \E fault \in HyperFaults :
         Apply(i, StepConvert(Machine(i), tdsx_files[i], fault))

Names(i) ==
    /\ Working(i) /\ task[i].pc = "names"
    /\ Apply(i, StepNames(Machine(i), tdsx_files[i]))

Load(i) ==
    /\ Working(i) /\ task[i].pc = "load"
    /\ \E fault \in LoadFaults :
         Apply(i, StepLoad(Machine(i), tdsx_files[i], fault))

\* load_data_source returns or raises; the worker reports to the MapResult
Return(i) ==
    /\ Working(i) /\ task[i].pc \in {"done", "failed"}
    /\ pool' = MapResultSet(pool, i, task[i].error)
    /\ UNCHANGED <<tdsx_files, config, disk, warehouse, task, mainpc, output>>

(***************************************************************************)
(* Spec: one data source, its worker followed statement by statement       *)
(***************************************************************************)
Init ==
    /\ \E nm \in NameSet :
         tdsx_files = << [datasource_id |-> 1, datasource_name |-> nm,
                          tdsx_file |-> ArchivePath(IdTokens[1])] >>
    /\ config \in Configs
    /\ \E a \in Archives : disk = [q \in {ArchivePath(IdTokens[1])} |-> a]
    /\ warehouse \in {EmptyWarehouse, UsedWarehouse}
    /\ task = [i \in 1..1 |-> NewTask]
    /\ pool = IdlePool
    /\ mainpc = "map"
    /\ output = <<>>

Next ==
    \/ MapAsync
    \/ TakeTask
    \/ \E i \in 1..Len(tdsx_files) : Begin(i)
    \/ \E i \in 1..Len(tdsx_files) : Extract(i)
    \/ \E i \in 1..Len(tdsx_files) : Convert(i)
    \/ \E i \in 1..Len(tdsx_files) : Names(i)
    \/ \E i \in 1..Len(tdsx_files) : Load(i)
    \/ \E i \in 1..Len(tdsx_files) : Return(i)
    \/ MapReturn

Spec == Init /\ [][Next]_vars

(***************************************************************************)
(* SpecPool: the whole run, each chunk run by its worker in one step       *)
(***************************************************************************)
InitPool ==
    /\ tdsx_files = <<>>
    /\ config = GoodConfig
    /\ disk = EmptyDisk
    /\ warehouse = EmptyWarehouse
    /\ task = <<>>
    /\ pool = IdlePool
    /\ mainpc = "download"
    /\ output = <<>>

NextPool ==
    \/ Download
    \/ DownloadFails
    \/ MapAsync
    \/ TakeTask
    \/ \E c \in 1..pool.ntasks : RunTask(c)
    \/ MapReturn

SpecPool == InitPool /\ [][NextPool]_vars

(***************************************************************************)
(* SpecRerun: the program run again and again for the same data source and *)
(* configuration, the extract holding new content each time                *)
(***************************************************************************)
FreshArchive(d) == ZipFile(<< [name |-> <<"Data", "/", "e", ".hyper">>, data |-> d] >>)

\* the process has ended and the program is started anew: the data sources
\* are downloaded again over whatever is on disk (lines 55-77) and a fresh
\* pool maps over the list (lines 287-291); the warehouse is as it was left
Rerun ==
    /\ mainpc = "done"
    /\ \E f \in [1..Len(tdsx_files) -> 1..MaxData] :
         disk' = [q \in DOMAIN disk \cup
                         { tdsx_files[i].tdsx_file : i \in 1..Len(tdsx_files) } |->
                    IF \E i \in 1..Len(tdsx_files) : tdsx_files[i].tdsx_file = q
                    THEN FreshArchive(f[CHOOSE i \in 1..Len(tdsx_files) :
                                           tdsx_files[i].tdsx_file = q])
                    ELSE disk[q]]
    /\ task' = [i \in 1..Len(tdsx_files) |-> NewTask]
    /\ pool' = IdlePool
    /\ mainpc' = "map"
    /\ output' = <<>>
    /\ UNCHANGED <<tdsx_files, config, warehouse>>

InitRerun ==
    /\ \E nm \in NameSet :
         tdsx_files = << [datasource_id |-> 1, datasource_name |-> nm,
                          tdsx_file |-> ArchivePath(IdTokens[1])] >>
    /\ \E pf \in Prefixes : config = [GoodConfig EXCEPT !.target_table_prefix = pf]
    /\ \E d \in 1..MaxData :
         disk = [q \in {ArchivePath(IdTokens[1])} |-> FreshArchive(d)]
    /\ warehouse = EmptyWarehouse
    /\ task = [i \in 1..1 |-> NewTask]
    /\ pool = IdlePool
    /\ mainpc = "map"
    /\ output = <<>>

NextRerun ==
    \/ MapAsync
    \/ TakeTask
    \/ \E i \in 1..Len(tdsx_files) : Begin(i)
    \/ \E i \in 1..Len(tdsx_files) : Extract(i)
    \/ \E i \in 1..Len(tdsx_files) : Convert(i)
    \/ \E i \in 1..Len(tdsx_files) : Names(i)
    \/ \E i \in 1..Len(tdsx_files) : Load(i)
    \/ \E i \in 1..Len(tdsx_files) : Return(i)
    \/ MapReturn
    \/ Rerun

SpecRerun == InitRerun /\ [][NextRerun]_vars

(***************************************************************************)
(* SpecPair: two data sources of different names listed in one run, their  *)
(* two workers interleaved statement by statement                          *)
(***************************************************************************)
InitPair ==
    /\ \E n1 \in NameSet : \E n2 \in NameSet \ {n1} :
         tdsx_files = << [datasource_id |-> 1, datasource_name |-> n1,
                          tdsx_file |-> ArchivePath(IdTokens[1])],
                         [datasource_id |-> 2, datasource_name |-> n2,
                          tdsx_file |-> ArchivePath(IdTokens[2])] >>
    /\ config = GoodConfig
    /\ disk = [q \in {ArchivePath(IdTokens[1]), ArchivePath(IdTokens[2])} |->
                 IF q = ArchivePath(IdTokens[1]) THEN FreshArchive(1)
                 ELSE FreshArchive(2)]
    /\ warehouse = EmptyWarehouse
    /\ task = [i \in 1..2 |-> NewTask]
    /\ pool = IdlePool
    /\ mainpc = "map"
    /\ output = <<>>

SpecPair == InitPair /\ [][Next]_vars

(***************************************************************************)
(* Properties                                                              *)
(***************************************************************************)
Items == 1..Len(tdsx_files)
FailedItems == { i \in Items : task[i].pc = "failed" }
Reported(i) == \E k \in 1..Len(output) : output[k].error = task[i].error

Matches(a) == { k \in 1..Len(a.entries) : EndsWith(a.entries[k].name, ".hyper") }
FirstMatch(a) == CHOOSE k \in Matches(a) : \A j \in Matches(a) : k <= j

ExtractOk(t) == Len(t.calls) >= 1 /\ t.calls[1].ok
ConvertCalled(t) == Len(t.calls) >= 2
ConvertOk(t) == Len(t.calls) >= 2 /\ t.calls[2].ok
LoadCalled(t) == Len(t.calls) >= 3
LoadOk(t) == Len(t.calls) >= 3 /\ t.calls[3].ok
SentOk(t, cmd) == \E k \in 1..Len(t.sql) : t.sql[k] = [cmd |-> cmd, ok |-> TRUE]

\* C1: with more items than the pool is wide and exactly one item failing, at
\* Convert, the finished run has every other item Loaded and reports exactly
\* that one failure.
C1_OneFailureIsolated ==
    (/\ mainpc = "done"
     /\ Len(tdsx_files) > PoolWidth
     /\ Cardinality(FailedItems) = 1
     /\ \A i \in FailedItems : task[i].error.stage = "convert")
    => /\ \A j \in Items \ FailedItems : Stage(task[j]) = "Loaded"
       /\ Len(output) = 1
       /\ \A i \in FailedItems : Reported(i)

\* C2: collect and continue - when the run is over every listed item has been
\* started and has run to Loaded or Failed, whatever its siblings did.
C2_EveryItemRuns ==
    mainpc = "done" =>
        \A i \in Items : Stage(task[i]) \in {"Loaded", "Failed"}

\* C3: every item that failed is reported by the finished run, each with its
\* own captured error, however many items failed.
C3_EveryFailureReported ==
    mainpc = "done" => \A i \in FailedItems : Reported(i)

\* C4: within one item the stage functions are called in the order extract,
\* convert, load, each at most once, and a stage is called only when every
\* stage before it succeeded.
C4_StageOrder ==
    \A i \in Items :
        LET c == task[i].calls
        IN  /\ Len(c) <= 3
            /\ \A k \in 1..Len(c) :
                 /\ c[k].fn = <<"extract", "convert", "load">>[k]
                 /\ k < Len(c) => c[k].ok
            /\ (Len(c) > 0 /\ ~c[Len(c)].ok) => task[i].pc = "failed"

\* an item whose extract succeeded and whose convert failed: load never ran
C4_Witness ==
    \E i \in Items :
        /\ Len(task[i].calls) = 2
        /\ task[i].calls[1].ok /\ ~task[i].calls[2].ok
        /\ task[i].pc = "failed"

\* C5: with several matching entries in the archive, the extract file holds
\* the content of the first one in enumeration order.
C5_FirstMatchWins ==
    \A i \in Items :
        (task[i].pc = "convert" /\ Cardinality(Matches(task[i].archive)) >= 2)
        => /\ Exists(disk, task[i].hyper_file_name)
           /\ disk[task[i].hyper_file_name].data =
                  task[i].archive.entries[FirstMatch(task[i].archive)].data

\* C6: with exactly one matching entry, extract returns the path of a file
\* holding that entry's content and the archive is gone from disk.
C6_SingleEntryExtracted ==
    \A i \in Items :
        (task[i].pc = "convert" /\ Cardinality(Matches(task[i].archive)) = 1)
        => /\ task[i].hyper_file_name = target_path(tdsx_files[i].tdsx_file)
           /\ Exists(disk, task[i].hyper_file_name)
           /\ disk[task[i].hyper_file_name] =
                  HyperFile(task[i].archive.entries[FirstMatch(task[i].archive)].data)
           /\ ~Exists(disk, tdsx_files[i].tdsx_file)

\* extract has returned for an archive of two entries, one of them matching
C6_Witness ==
    \E i \in Items :
        /\ task[i].pc = "convert"
        /\ Len(task[i].archive.entries) = 2
        /\ Cardinality(Matches(task[i].archive)) = 1

C8_ExtractFileKeptOnFailure ==
    \A i \in Items :
        /\ (ConvertCalled(task[i]) /\ ~ConvertOk(task[i]))
           => /\ Exists(disk, task[i].hyper_file_name)
              /\ disk[task[i].hyper_file_name].kind = "hyper"
        /\ (ExtractOk(task[i]) /\ ~Exists(disk, task[i].hyper_file_name))
           => ConvertOk(task[i])

\* the dump command failed
C8_Witness ==
    \E i \in Items :
        /\ task[i].pc = "failed" /\ task[i].error.stage = "convert"
        /\ task[i].error.cause.msg = "copy failed"

\* C9: the columnar file is deleted only by a load whose seven commands all
\* succeeded: after a load that failed at the upload, or anywhere else, it is
\* still on disk.
C9_ColumnarFileKeptOnFailure ==
    \A i \in Items :
        /\ (LoadCalled(task[i]) /\ ~LoadOk(task[i]))
           => /\ Exists(disk, task[i].new_parquet_file)
              /\ disk[task[i].new_parquet_file].kind = "parquet"
        /\ (ConvertOk(task[i]) /\ ~Exists(disk, task[i].new_parquet_file))
           => /\ LoadOk(task[i])
              /\ Len(task[i].sql) = 7
              /\ \A k \in 1..7 : task[i].sql[k].ok

\* the upload to the stage failed
C9_Witness ==
    \E i \in Items :
        /\ LoadCalled(task[i]) /\ ~LoadOk(task[i])
        /\ Len(task[i].sql) = 4 /\ task[i].sql[4] = [cmd |-> "put", ok |-> FALSE]

\* C10: the commands go out in the order schema, file format, stage, upload,
\* drop, create, copy, none after one that failed; the tables change only in
\* a load whose upload succeeded; and a load that failed after the drop leaves
\* the target table absent or empty (nothing is rolled back).
C10_CommandOrder ==
    /\ [](\A i \in Items :
            /\ Len(task[i].sql) <= 7
            /\ \A k \in 1..Len(task[i].sql) :
                 /\ task[i].sql[k].cmd =
                        <<"create_schema", "file_format", "stage", "put",
                          "drop_table", "create_table", "copy_into">>[k]
                 /\ k < Len(task[i].sql) => task[i].sql[k].ok
            /\ (LoadCalled(task[i]) /\ ~LoadOk(task[i]) /\ SentOk(task[i], "drop_table"))
               => \/ TableKey(task[i]) \notin DOMAIN warehouse.tables
                  \/ warehouse.tables[TableKey(task[i])].rows = <<>>)
    /\ [][warehouse'.tables # warehouse.tables
            => \E i \in Items : task[i].sql = <<>> /\ SentOk(task'[i], "put")]_vars

\* a table left by an earlier run was dropped and the create that follows
\* failed: the table is gone
C10_Witness ==
    \E i \in Items :
        /\ Len(task[i].sql) = 6 /\ ~task[i].sql[6].ok
        /\ TableKey(task[i]) \in OldKeys
        /\ TableKey(task[i]) \notin DOMAIN warehouse.tables
        /\ \E k \in DOMAIN warehouse.tables : warehouse.tables[k] = OldTable

\* C11: the target identifier is decided by (prefix, schema, data source name)
\* alone: "Q1 Sales" with prefix "bi" and schema "analytics" goes to table
\* BI_Q1_SALES in schema ANALYTICS, "q1_sales" to the same table, and without
\* a prefix (None or empty) the table is the upper-cased normalized name.
C11_TargetName ==
    \A i \in Items :
        task[i].pc \in {"load", "done"} =>
            LET nm == tdsx_files[i].datasource_name
                pf == config.target_table_prefix
                q1 == nm \in { <<"Q", "1", " ", "S", "a", "l", "e", "s">>,
                               <<"q", "1", "_", "s", "a", "l", "e", "s">> }
            IN  /\ config.target_schema = <<"a", "n", "a", "l", "y", "t", "i", "c", "s">>
                   => task[i].target_schema_name =
                          <<"A", "N", "A", "L", "Y", "T", "I", "C", "S">>
                /\ (q1 /\ pf = <<"b", "i">>)
                   => task[i].target_table_name =
                          <<"B", "I", "_", "Q", "1", "_", "S", "A", "L", "E", "S">>
                /\ (q1 /\ pf \in {NoneVal, <<>>})
                   => task[i].target_table_name =
                          <<"Q", "1", "_", "S", "A", "L", "E", "S">>
                /\ (nm = <<"T", "S">> /\ pf = <<"b", "i">>)
                   => task[i].target_table_name = <<"B", "I", "_", "T", "S">>
                /\ (nm = <<"T", "S">> /\ pf \in {NoneVal, <<>>})
                   => task[i].target_table_name = <<"T", "S">>
                /\ \A k \in DOMAIN warehouse.tables :
                       warehouse.tables[k] # OldTable => k = TableKey(task[i])

\* "Q1 Sales" has been loaded under prefix "bi" into schema "analytics"
C11_Witness ==
    \E i \in Items :
        /\ task[i].pc = "done"
        /\ tdsx_files[i].datasource_name = <<"Q", "1", " ", "S", "a", "l", "e", "s">>
        /\ config.target_table_prefix = <<"b", "i">>
        /\ <<<<"A", "N", "A", "L", "Y", "T", "I", "C", "S">>,
             <<"B", "I", "_", "Q", "1", "_", "S", "A", "L", "E", "S">>>>
               \in DOMAIN warehouse.tables

\* the same data source loaded with no prefix configured
C11_WitnessNoPrefix ==
    \E i \in Items :
        /\ task[i].pc = "done"
        /\ tdsx_files[i].datasource_name = <<"Q", "1", " ", "S", "a", "l", "e", "s">>
        /\ config.target_table_prefix = NoneVal
        /\ task[i].target_table_name = <<"Q", "1", "_", "S", "A", "L", "E", "S">>

\* C12: a load that finds the target table filled by an earlier successful
\* load succeeds when Snowflake refuses nothing, and once it has succeeded
\* the identifier names one table holding the columns and rows of the latest
\* extract only; no table appears under another identifier.
C12_RerunReplaces ==
    \A i \in Items :
        /\ (/\ task[i].pc = "load"
            /\ TableKey(task[i]) \in DOMAIN warehouse.tables
            /\ warehouse.tables[TableKey(task[i])].rows # <<>>)
           => StepLoad(Machine(i), tdsx_files[i], "none").t.pc = "done"
        /\ (task[i].pc = "done" /\ task[i].found.rows # <<>>)
           => /\ DOMAIN warehouse.tables = {TableKey(task[i])}
              /\ warehouse.tables[TableKey(task[i])] =
                     [columns |-> << task[i].archive.entries[1].data >>,
                      rows |-> << task[i].archive.entries[1].data >>]

\* the second load has replaced rows <<1>> by rows <<2>>
C12_Witness ==
    \E i \in Items :
        /\ task[i].pc = "done"
        /\ task[i].found = [columns |-> <<1>>, rows |-> <<1>>]
        /\ task[i].archive.entries[1].data = 2
        /\ warehouse.tables[TableKey(task[i])].rows = <<2>>

\* C13: two different data sources of one run never share a local file: their
\* extract paths differ, their columnar paths differ, and the columnar file a
\* conversion has written is still there, with the item's own content, when
\* the item's load is about to be called.
C13_NoSharedLocalFile ==
    \A i \in Items :
        /\ \A j \in Items \ {i} :
              /\ target_path(tdsx_files[i].tdsx_file) #
                     target_path(tdsx_files[j].tdsx_file)
              /\ (task[i].new_parquet_file # NoPath /\ task[j].new_parquet_file # NoPath)
                 => task[i].new_parquet_file # task[j].new_parquet_file
        /\ (ConvertOk(task[i]) /\ ~LoadCalled(task[i]))
           => /\ Exists(disk, task[i].new_parquet_file)
              /\ disk[task[i].new_parquet_file].data = task[i].archive.entries[1].data

DownloadFailed == \E k \in 1..Len(output) : output[k].error.stage = "download"

\* C14: once the listing has failed the run is over: no list was returned
\* (not even of the archives already downloaded), the pool was never given a
\* chunk, no item exists to be extracted, converted or loaded, and neither
\* the warehouse nor any local extract or columnar file bears a trace of one.
C14_ListingAllOrNothing ==
    DownloadFailed =>
        /\ mainpc = "done"
        /\ tdsx_files = <<>>
        /\ task = <<>>
        /\ pool = IdlePool
        /\ warehouse = EmptyWarehouse
        /\ \A q \in DOMAIN disk : disk[q].kind = "zip"
        /\ Len(output) = 1

\* the listing failed after archives had been downloaded
C14_Witness ==
    DownloadFailed /\ Cardinality(DOMAIN disk) >= 1

ChunkOf(i) == ((i - 1) \div pool.chunksize) + 1

\* C15: never more than five chunks are in the hands of workers, each chunk
\* in the hands of one worker that runs its items one after the other; an
\* item is touched only while its chunk is running, only from its untouched
\* state, together with items of the same chunk only, and the chunk is then
\* handed back for good: no item is run twice or by two workers.
C15_BoundedParallelism ==
    /\ [](/\ Cardinality(pool.running) <= PoolWidth
          /\ \A c \in pool.running : c < pool.next /\ c <= pool.ntasks
          /\ mainpc = "wait" =>
                \A i \in Items :
                   task[i].pc # "start" =>
                      ChunkOf(i) < pool.next /\ ChunkOf(i) \notin pool.running)
    /\ [][mainpc = "wait" =>
            \A i \in Items :
               task'[i] # task[i] =>
                  /\ task[i].pc = "start"
                  /\ ChunkOf(i) \in pool.running
                  /\ ChunkOf(i) \notin pool'.running
                  /\ pool'.next = pool.next
                  /\ \A j \in Items : task'[j] # task[j] => ChunkOf(j) = ChunkOf(i)]_vars

\* five chunks are running and more are waiting in the queue
C15_Witness ==
    /\ Cardinality(pool.running) = PoolWidth
    /\ pool.next <= pool.ntasks
    /\ \E i \in Items : task[i].pc # "start"

\* C16: the target names are derived before the first stage is called: a
\* stage function is called only once the table name is known, and an item
\* whose names cannot be derived has failed with its archive on disk and no
\* stage function called.
C16_NamesBeforeExtract ==
    \A i \in Items :
        /\ task[i].calls # <<>> => task[i].target_table_name # NoneVal
        /\ (task[i].pc = "failed" /\ task[i].error.stage = "names")
           => /\ Exists(disk, tdsx_files[i].tdsx_file)
              /\ task[i].calls = <<>>

\* the same for the item without a target schema alone
C16_NoSchemaFailsEarly ==
    \A i \in Items :
        (task[i].pc = "failed" /\ task[i].error.stage = "names")
        => /\ Exists(disk, tdsx_files[i].tdsx_file)
           /\ task[i].calls = <<>>

MissingFile == Exc("RuntimeError", "FileNotFoundError")

C18_InputKeptUntilOutput ==
    \A i \in Items :
        /\ ~LoadOk(task[i])
           => \/ Exists(disk, tdsx_files[i].tdsx_file)
              \/ Exists(disk, target_path(tdsx_files[i].tdsx_file))
              \/ Exists(disk, task[i].new_parquet_file)
        /\ (task[i].pc = "failed" /\ task[i].error.stage \in {"config", "extract"})
           => Exists(disk, tdsx_files[i].tdsx_file)
        /\ (task[i].pc = "failed" /\ task[i].error.stage = "convert")
           => /\ Exists(disk, target_path(tdsx_files[i].tdsx_file))
              /\ disk[target_path(tdsx_files[i].tdsx_file)].kind = "hyper"
        /\ (task[i].pc = "failed" /\ task[i].error.stage \in {"names", "load"})
           => /\ Exists(disk, task[i].new_parquet_file)
              /\ disk[task[i].new_parquet_file].kind = "parquet"

\* the engine did not start: the extract file is the only file of the item
C18_Witness ==
    \E i \in Items :
        /\ task[i].pc = "failed" /\ task[i].error.stage = "convert"
        /\ task[i].error.cause.msg = "engine failed to start"
        /\ DOMAIN disk = { target_path(tdsx_files[i].tdsx_file) }

Gone(p) == Exists(disk, p) /\ ~Exists(disk', p)

\* C19: an item that has gone through extract, convert and load has left no
\* local file: archive, extract file and columnar file are off the disk, the
\* archive taken away by the extract step, the extract file by the convert
\* step, the columnar file by the load step, and what remains of the item is
\* its table in the warehouse.
C19_NoTempFilesLeft ==
    /\ [](\A i \in Items :
            task[i].pc = "done"
            => /\ ~Exists(disk, tdsx_files[i].tdsx_file)
               /\ ~Exists(disk, task[i].hyper_file_name)
               /\ ~Exists(disk, task[i].new_parquet_file)
               /\ disk = EmptyDisk
               /\ TableKey(task[i]) \in DOMAIN warehouse.tables
               /\ warehouse.tables[TableKey(task[i])].rows # <<>>)
    /\ [][\A i \in Items :
            /\ Gone(tdsx_files[i].tdsx_file)
               => task[i].pc = "extract" /\ task'[i].pc = "convert"
            /\ Gone(target_path(tdsx_files[i].tdsx_file))
               => task[i].pc = "convert" /\ task'[i].pc = "names"
            /\ (task[i].new_parquet_file # NoPath /\ Gone(task[i].new_parquet_file))
               => task[i].pc = "load" /\ task'[i].pc = "done"]_vars

\* an archive of two entries has been extracted, converted and loaded
C19_Witness ==
    \E i \in Items :
        /\ task[i].pc = "done"
        /\ Len(task[i].archive.entries) = 2
        /\ disk = EmptyDisk
        /\ TableKey(task[i]) \in DOMAIN warehouse.tables

====
